---- MODULE Spec2Model ----
(***************************************************************************)
(* Norte: the request pipeline of the routes a Router registers (list,     *)
(* create, read, update, delete) behind the Norte application's            *)
(* authentication middleware.                                              *)
(*                                                                         *)
(* A request travels: authMiddleware (global) -> the matched route's chain *)
(* (privateMiddleware unless the route is public, the transport's          *)
(* validators for the declared params and body, the route handler) -> the  *)
(* application handler -> the response.                                    *)
(*                                                                         *)
(* Beside the pipeline: the construction of NorteError values, and the     *)
(* construction of Routers with the paths, param schemas and routes they   *)
(* derive from their domains. The Router class exists twice in the         *)
(* repository (router.ts, and after NorteError in error.ts); impl says     *)
(* which of the two the application loads.                                 *)
(***************************************************************************)
EXTENDS Integers, Sequences, FiniteSets, TLC

\* ------------------------------------------------------------------ bounds
\* number of ancestors of the node a request is routed to
MaxDepth == 1
\* longest array an application handler returns
MaxLen == 1
\* number of NorteError values an application constructs
MaxMade == 2
\* number of Routers an application constructs
MaxNodes == 3
\* number of routes the Routers of an application register
MaxRoutes == 1

\* ------------------------------------------------------------ value domain
Rids == {1, 2}

Ops == {"list", "create", "read", "update", "delete"}

\* config.isPublic as written by the caller (undefined when left out)
IsPublicValues == {"undefined", "false", "true"}

\* the credentials a request carries
Creds == {"none", "valid"}

Messages == {"x not found", "already exists"}

\* messages of thrown plain Errors; new Error() has the empty message
ErrorMessages == {"", "boom"}

Undefined == [t |-> "undefined"]

Str(s) == [t |-> "string", s |-> s]

\* details handed to the NorteError constructor
DetailsValues == {Undefined, [t |-> "number", n |-> 0], [t |-> "object", id |-> 1]}

\* JavaScript truthiness of a details value
Truthy(d) == d.t = "object" \/ (d.t = "number" /\ d.n # 0) \/ (d.t = "string" /\ d.s # "")

ErrorCode ==
  {"NOT_FOUND", "INVALID_INPUT", "UNAUTHORIZED", "FORBIDDEN", "CONFLICT", "INTERNAL_SERVER_ERROR"}

\* statusMap with the entries of CONFLICT and FORBIDDEN exchanged
statusMapExchanged ==
  [code \in ErrorCode |->
     CASE code = "NOT_FOUND" -> 404
       [] code = "INVALID_INPUT" -> 400
       [] code = "UNAUTHORIZED" -> 401
       [] code = "FORBIDDEN" -> 409
       [] code = "CONFLICT" -> 403
       [] code = "INTERNAL_SERVER_ERROR" -> 500]

statusMap ==
  [code \in ErrorCode |->
     CASE code = "NOT_FOUND" -> 404
       [] code = "INVALID_INPUT" -> 400
       [] code = "UNAUTHORIZED" -> 401
       [] code = "FORBIDDEN" -> 403
       [] code = "CONFLICT" -> 409
       [] code = "INTERNAL_SERVER_ERROR" -> 500]

\* a property read: undefined when the object has no such key
Lookup(map, key) == IF key \in DOMAIN map THEN map[key] ELSE Undefined

\* a constructor that does not keep the details it is given
NorteErrorWithoutDetails(code, message, details) ==
  [t |-> "NorteError", code |-> code, message |-> message, details |-> Undefined,
   statusCode |-> Lookup(statusMap, code)]

\* new NorteError(code, message, details?): details is undefined when none
\* is given, statusCode is read from statusMap
NorteError(code, message, details) ==
  [t |-> "NorteError", code |-> code, message |-> message, details |-> details,
   statusCode |-> Lookup(statusMap, code)]

\* the kinds a caller can hand to the constructor at run time: the
\* ErrorCode type restricts them only where the caller is type-checked
GivenCodes == ErrorCode \cup {"TEAPOT"}

NorteErrors ==
  {NorteError(code, m, d) : code \in ErrorCode, m \in Messages, d \in DetailsValues}

\* a plain Error: message and stack
PlainErrors == {[t |-> "Error", message |-> m, stack |-> "trace"] : m \in ErrorMessages}

\* a thrown value that is not an Error
NonErrors == {Str("boom")}

\* objects an application handler can return: ok = satisfies the response
\* schema, extra = carries a key the schema does not declare
Objects ==
  {[t |-> "object", ok |-> TRUE, extra |-> FALSE],
   [t |-> "object", ok |-> TRUE, extra |-> TRUE],
   [t |-> "object", ok |-> FALSE, extra |-> FALSE]}

Arrays ==
  {[t |-> "array", elems |-> s] : s \in UNION {[1..n -> Objects] : n \in 0..MaxLen}}

DataValues == Objects \cup Arrays \cup {Undefined}

\* what the application handler does when invoked
Behaviours ==
  {[ch |-> "return", v |-> v] : v \in DataValues \cup NorteErrors}
    \cup {[ch |-> "throw", v |-> v] : v \in NorteErrors \cup PlainErrors \cup NonErrors}

\* request bodies as the handler reads them with c.req.valid('json')
Bodies == {"good", "bad"}

HasBody(op) == op \in {"create", "update"}

\* how the operation was registered: op(handler) or op(config, handler);
\* create and update take the config form only
Forms == {"handler", "config"}

\* config.input of a registration: the schema create and update require,
\* undefined when a caller the compiler does not check leaves it out, none
\* for the operations that take no input
Inputs == {"schema", "undefined", "none"}

\* requests to the routes of any caller
AnyRequests ==
  {q \in [op : Ops, form : Forms, isPublic : IsPublicValues, input : Inputs,
          cred : Creds, depth : 0..MaxDepth, paramsOk : BOOLEAN,
          body : Bodies \cup {"none"}, behaviour : Behaviours] :
     /\ (q.body = "none") <=> ~HasBody(q.op)
     /\ (q.input = "none") <=> ~HasBody(q.op)
     /\ q.form = "handler" => ~HasBody(q.op) /\ q.isPublic = "undefined"}

\* requests to the routes of a type-checked caller: create and update were
\* given their input schema
Requests == {q \in AnyRequests : q.input # "undefined"}

NoRequest == [op |-> "none"]

VARIABLES
  req,        \* req[r]: the request r and the route it is dispatched to
  pc,         \* pc[r]: position of request r in the pipeline
  session,    \* c.get('session') of request r
  user,       \* c.get('user') of request r
  chain,      \* the steps of the matched route still to run
  validated,  \* the validation steps that ran for request r
  calls,      \* the arguments of each invocation of the application handler
  out,        \* the responses produced for request r
  made,       \* the NorteError values constructed, with their arguments
  impl,       \* the file whose Router class the application loads
  nodes,      \* the Routers constructed, each with the routes it registered
  app,        \* the Norte application: the routes of its hono, in the order added
  ran,        \* ran[r]: the global middlewares that ran for request r, in order
  ret         \* what the last list, create, read, update or delete call returned

vars == <<req, pc, session, user, chain, validated, calls, out, made, impl, nodes,
          app, ran, ret>>

\* the state outside the pipeline of a request
setup == <<made, impl, nodes, app, ret>>

\* the repository holds the Router class twice: in router.ts and after
\* NorteError in error.ts
Impls == {"router.ts", "error.ts"}

\* ---------------------------------------------------------------- responses
\* c.json(body, status)
json(body, status) == [type |-> "json", status |-> status, body |-> body]

\* c.body(null, status)
bodyNull(status) == [type |-> "empty", status |-> status]

\* the transport's own answer to a request its validators reject
transportReject == [type |-> "transport", status |-> 400]

ZodError(of) == [t |-> "ZodError", of |-> of]

Null == "null"

Unset == "unset"

\* ------------------------------------------------------------ authentication
\* auth.api.getSession({ headers })
getSession(cred) ==
  IF cred = "valid" THEN [t |-> "session", session |-> "s1", user |-> "u1"]
  ELSE [t |-> "null"]

\* !session
Falsy(s) == s \in {Null, Unset}

\* ------------------------------------------------------------- the nodes
\* a string is the sequence of its characters
stores == <<"s", "t", "o", "r", "e", "s">>
products == <<"p", "r", "o", "d", "u", "c", "t", "s">>
variants == <<"v", "a", "r", "i", "a", "n", "t", "s">>
categories == <<"c", "a", "t", "e", "g", "o", "r", "i", "e", "s">>
sDomain == <<"s">>

\* the domains a Router is constructed with
Domains == {stores, products, categories, sDomain}

Id == <<"I", "d">>

id == <<"i", "d">>

Slash == <<"/">>

SlashColon == <<"/", ":">>

\* str.endsWith(suffix)
endsWith(str, suffix) ==
  /\ Len(str) >= Len(suffix)
  /\ SubSeq(str, Len(str) - Len(suffix) + 1, Len(str)) = suffix

\* str.slice(0, -n)
sliceEnd(str, n) == SubSeq(str, 1, Len(str) - n)

\* `/${this.domain}`
getDomainPath(domain) == Slash \o domain

getDomainParam(domain) ==
  (IF endsWith(domain, <<"i", "e", "s">>) THEN sliceEnd(domain, 3) \o <<"y">>
   ELSE IF endsWith(domain, <<"s">>) THEN sliceEnd(domain, 1)
   ELSE domain) \o Id

\* ns is the sequence of the Routers constructed so far, a Router's parent
\* the index of its parent in ns, 0 for a root
RECURSIVE getFullPath(_, _)
getFullPath(ns, i) ==
  IF ns[i].parent = 0 THEN getDomainPath(ns[i].domain)
  ELSE getFullPath(ns, ns[i].parent) \o SlashColon
         \o getDomainParam(ns[ns[i].parent].domain) \o getDomainPath(ns[i].domain)

\* the derived names of the ancestors, root first
RECURSIVE getParentParams(_, _)
getParentParams(ns, i) ==
  IF ns[i].parent = 0 THEN <<>>
  ELSE Append(getParentParams(ns, ns[i].parent), getDomainParam(ns[ns[i].parent].domain))

\* the keys of the object literal names.reduce(...) builds: a key given
\* again keeps its first place
RECURSIVE keys(_)
keys(names) ==
  IF names = <<>> THEN <<>>
  ELSE LET front == keys(SubSeq(names, 1, Len(names) - 1))
           last == names[Len(names)]
       IN IF \E k \in DOMAIN front : front[k] = last THEN front ELSE Append(front, last)

getParameterSchema(ns, i) == keys(getParentParams(ns, i))

\* the name of the node's own identifier in the paths and the param schemas
\* of read, update and delete: the Router of router.ts names it id, the
\* Router of error.ts by the node's derived parameter name
currentParam(ns, i) ==
  IF impl = "router.ts" THEN id ELSE getDomainParam(ns[i].domain)

getParameterSchemaWithId(ns, i) ==
  keys(getParentParams(ns, i) \o <<currentParam(ns, i)>>)

\* new Router(domain, config) and new Router(parent, domain, config)
Router(ns, parent, domain) ==
  LET this == [domain |-> domain, parent |-> parent, path |-> <<>>, router |-> <<>>]
  IN [this EXCEPT !.path = getFullPath(Append(ns, this), Len(ns) + 1)]

\* the segments of a path
RECURSIVE segments(_)
segments(path) ==
  IF path = <<>> THEN <<>>
  ELSE LET rest == Tail(path)
           stops == {k \in DOMAIN rest : rest[k] = "/"}
           end == IF stops = {} THEN Len(rest) + 1
                  ELSE CHOOSE k \in stops : \A j \in stops : k <= j
       IN <<SubSeq(rest, 1, end - 1)>> \o segments(SubSeq(rest, end, Len(rest)))

isParamSegment(segment) == segment # <<>> /\ segment[1] = ":"

\* the names of the parameters of a path, in the order of the path
pathParams(path) ==
  LET found == SelectSeq(segments(path), isParamSegment)
  IN [k \in DOMAIN found |-> Tail(found[k])]

\* c.req.param(name) for a request matched by a route whose path has the
\* parameters names: the value of the segment the name is bound to, a cuid2
\* once the param validator passed
reqParam(names, name) ==
  LET at == {k \in DOMAIN names : names[k] = name}
  IN IF at = {} THEN Undefined
     ELSE [t |-> "cuid", n |-> CHOOSE k \in at : \A j \in at : k <= j]

\* the param object of the Router of error.ts
extractParameters(ns, i, names, includeCurrentId) ==
  LET parentParams == getParentParams(ns, i)
      allParamNames == IF includeCurrentId
                       THEN parentParams \o <<getDomainParam(ns[i].domain)>>
                       ELSE parentParams
      given == {allParamNames[k] : k \in {j \in DOMAIN allParamNames :
                                            reqParam(names, allParamNames[j]) # Undefined}}
  IN [name \in given |-> reqParam(names, name)]

\* the param object of the Router of router.ts: { id } of the validated
\* params for read, update and delete, then the parents' parameters
inlineParameters(ns, i, names, withId) ==
  LET parentParams == getParentParams(ns, i)
      given == {parentParams[k] : k \in {j \in DOMAIN parentParams :
                                           reqParam(names, parentParams[j]) # Undefined}}
  IN [name \in given \cup (IF withId THEN {id} ELSE {}) |-> reqParam(names, name)]

\* ---------------------------------------------------------- route definition
\* the first argument of the registration
ConfigOrHandler(q) ==
  IF q.form = "handler" THEN [t |-> "function"]
  ELSE [t |-> "object", isPublic |-> q.isPublic]

\* resolveHandlerArgs taking the handler-only form for a public operation
resolveHandlerArgsPublic(configOrHandler) ==
  IF configOrHandler.t = "function"
  THEN [config |-> [isPublic |-> "true"]]
  ELSE [config |-> [isPublic |-> configOrHandler.isPublic]]

\* typeof configOrHandler === 'function' ? { config: {} } : { config }
resolveHandlerArgs(configOrHandler) ==
  IF configOrHandler.t = "function"
  THEN [config |-> [isPublic |-> "undefined"]]
  ELSE [config |-> [isPublic |-> configOrHandler.isPublic]]

\* the config the route definition is built from: create and update use
\* their config argument as given
Config(q) ==
  IF HasBody(q.op) THEN [isPublic |-> q.isPublic, input |-> q.input]
  ELSE resolveHandlerArgs(ConfigOrHandler(q)).config

privateFields == <<"privateMiddleware">>

\* RouteMiddleware testing that isPublic was given instead of its value
RouteMiddlewareWhenGiven(config) ==
  IF config.isPublic # "undefined" THEN <<>> ELSE privateFields

\* config.isPublic ? {} : this.privateFields()
RouteMiddleware(config) == IF config.isPublic = "true" THEN <<>> ELSE privateFields

commonResponses == {400, 401, 403, 404, 409, 500}

listDefinition(config, ns, i) ==
  [method |-> "get", path |-> ns[i].path, instance |-> FALSE,
   middleware |-> RouteMiddleware(config),
   params |-> IF Len(getParentParams(ns, i)) > 0 THEN getParameterSchema(ns, i) ELSE <<>>,
   body |-> FALSE, schema |-> "none", responses |-> {200} \cup commonResponses]

createDefinition(config, ns, i) ==
  [method |-> "post", path |-> ns[i].path, instance |-> FALSE,
   middleware |-> RouteMiddleware(config),
   params |-> IF Len(getParentParams(ns, i)) > 0 THEN getParameterSchema(ns, i) ELSE <<>>,
   body |-> TRUE, schema |-> config.input, responses |-> {201} \cup commonResponses]

getUpdateRoute(config, ns, i) ==
  [method |-> "patch", path |-> ns[i].path \o SlashColon \o currentParam(ns, i),
   instance |-> TRUE, middleware |-> RouteMiddleware(config),
   params |-> getParameterSchemaWithId(ns, i),
   body |-> TRUE, schema |-> config.input, responses |-> {200} \cup commonResponses]

getReadRoute(config, ns, i) ==
  [method |-> "get", path |-> ns[i].path \o SlashColon \o currentParam(ns, i),
   instance |-> TRUE, middleware |-> RouteMiddleware(config),
   params |-> getParameterSchemaWithId(ns, i),
   body |-> FALSE, schema |-> "none", responses |-> {200, 401, 404, 500}]

getDeleteRoute(config, ns, i) ==
  [method |-> "delete", path |-> ns[i].path \o SlashColon \o currentParam(ns, i),
   instance |-> TRUE, middleware |-> RouteMiddleware(config),
   params |-> getParameterSchemaWithId(ns, i),
   body |-> FALSE, schema |-> "none", responses |-> {204, 401, 404, 500}]

\* the definition the operation op of node i builds from its config
Definition(op, config, ns, i) ==
  CASE op = "list" -> listDefinition(config, ns, i)
    [] op = "create" -> createDefinition(config, ns, i)
    [] op = "update" -> getUpdateRoute(config, ns, i)
    [] op = "read" -> getReadRoute(config, ns, i)
    [] op = "delete" -> getDeleteRoute(config, ns, i)

\* openapi running the validators ahead of the definition's middleware
openapiValidatorsFirst(definition) ==
  (IF definition.params # <<>> THEN <<"param">> ELSE <<>>)
    \o (IF definition.body /\ definition.schema = "schema" THEN <<"json">> ELSE <<>>)
    \o definition.middleware
    \o <<"handler">>

\* this.router.openapi(definition, handler): the route runs the definition's
\* middleware, then the validators of the declared request parts, then the
\* handler
openapi(definition) ==
  definition.middleware
    \o (IF definition.params # <<>> THEN <<"param">> ELSE <<>>)
    \o (IF definition.body /\ definition.schema = "schema" THEN <<"json">> ELSE <<>>)
    \o <<"handler">>

\* ------------------------------------------------------------- validation
\* this.schema.safeParse(data): the node's schema is an object schema, which
\* drops the keys it does not declare
schemaSafeParse(data) ==
  IF data.t = "object" /\ data.ok
  THEN [success |-> TRUE, data |-> [data EXCEPT !.extra = FALSE]]
  ELSE [success |-> FALSE, error |-> ZodError("data")]

\* z.array(this.schema).safeParse(result)
arraySafeParse(data) ==
  IF data.t = "array" /\ \A i \in DOMAIN data.elems : schemaSafeParse(data.elems[i]).success
  THEN [success |-> TRUE,
        data |-> [t |-> "array",
                  elems |-> [i \in DOMAIN data.elems |-> schemaSafeParse(data.elems[i]).data]]]
  ELSE [success |-> FALSE, error |-> ZodError("data")]

validateSchema(data) == schemaSafeParse(data)

\* the TypeError of reading a property of undefined
TypeError ==
  [t |-> "Error", message |-> "Cannot read properties of undefined", stack |-> "trace"]

\* config.input?.safeParse(input): a missing schema accepts every body
inputSafeParseOptional(schema, input) ==
  IF schema = "undefined" THEN [threw |-> FALSE, success |-> TRUE, data |-> input]
  ELSE IF input = "good" THEN [threw |-> FALSE, success |-> TRUE, data |-> input]
  ELSE [threw |-> FALSE, success |-> FALSE, error |-> ZodError("input")]

\* config.input.safeParse(input): throws when config.input is undefined
inputSafeParse(schema, input) ==
  IF schema = "undefined" THEN [threw |-> TRUE, error |-> TypeError]
  ELSE IF input = "good" THEN [threw |-> FALSE, success |-> TRUE, data |-> input]
  ELSE [threw |-> FALSE, success |-> FALSE, error |-> ZodError("input")]

\* -------------------------------------------------------- error translation
createErrorResponse(error) ==
  IF Truthy(error.details)
  THEN [error |-> error.code, message |-> error.message, details |-> error.details]
  ELSE [error |-> error.code, message |-> error.message]

\* handleError without the branch that recognises a NorteError
handleErrorNoNorteBranch(error) ==
  IF error.t \in {"NorteError", "Error"}
  THEN json([error |-> "INTERNAL_SERVER_ERROR", details |-> Str(error.message)], 500)
  ELSE json([error |-> "INTERNAL_SERVER_ERROR"], 500)

\* handleError that also sends the stack of a plain Error
handleErrorWithStack(error) ==
  IF error.t = "NorteError" THEN json(createErrorResponse(error), error.statusCode)
  ELSE IF error.t = "Error"
  THEN json([error |-> "INTERNAL_SERVER_ERROR", details |-> Str(error.message),
             stack |-> Str(error.stack)], 500)
  ELSE json([error |-> "INTERNAL_SERVER_ERROR"], 500)

handleError(error) ==
  IF error.t = "NorteError" THEN json(createErrorResponse(error), error.statusCode)
  ELSE IF error.t = "Error"
  THEN json([error |-> "INTERNAL_SERVER_ERROR", details |-> Str(error.message)], 500)
  ELSE json([error |-> "INTERNAL_SERVER_ERROR"], 500)

\* ----------------------------------------------------- the route handlers
\* Each operator is the part of the route handler that runs once the awaited
\* application handler has settled with behaviour b: the response, and
\* whether the returned value was checked against the response schema.
\* listHandler validating one instance instead of an array
listHandlerOneInstance(b) ==
  IF b.ch = "throw" THEN [resp |-> handleError(b.v), checked |-> FALSE]
  ELSE IF b.v.t = "NorteError"
  THEN [resp |-> json(createErrorResponse(b.v), b.v.statusCode), checked |-> FALSE]
  ELSE LET validatedData == validateSchema(b.v)
       IN IF ~validatedData.success
          THEN [resp |-> json([error |-> "INVALID_DATA", details |-> validatedData.error], 400),
                checked |-> TRUE]
          ELSE [resp |-> json([data |-> validatedData.data], 200), checked |-> TRUE]

listHandler(b) ==
  IF b.ch = "throw" THEN [resp |-> handleError(b.v), checked |-> FALSE]
  ELSE IF b.v.t = "NorteError"
  THEN [resp |-> json(createErrorResponse(b.v), b.v.statusCode), checked |-> FALSE]
  ELSE LET validatedData == arraySafeParse(b.v)
       IN IF ~validatedData.success
          THEN [resp |-> json([error |-> "INVALID_DATA", details |-> validatedData.error], 400),
                checked |-> TRUE]
          ELSE [resp |-> json([data |-> validatedData.data], 200), checked |-> TRUE]

\* createHandler answering 200 like the other operations
createHandlerStatus200(b) ==
  IF b.ch = "throw" THEN [resp |-> handleError(b.v), checked |-> FALSE]
  ELSE IF b.v.t = "NorteError"
  THEN [resp |-> json(createErrorResponse(b.v), b.v.statusCode), checked |-> FALSE]
  ELSE LET validatedData == validateSchema(b.v)
       IN IF ~validatedData.success
          THEN [resp |-> json([error |-> "INVALID_DATA", details |-> validatedData.error], 400),
                checked |-> TRUE]
          ELSE [resp |-> json([data |-> validatedData.data], 200), checked |-> TRUE]

createHandler(b) ==
  IF b.ch = "throw" THEN [resp |-> handleError(b.v), checked |-> FALSE]
  ELSE IF b.v.t = "NorteError"
  THEN [resp |-> json(createErrorResponse(b.v), b.v.statusCode), checked |-> FALSE]
  ELSE LET validatedData == validateSchema(b.v)
       IN IF ~validatedData.success
          THEN [resp |-> json([error |-> "INVALID_DATA", details |-> validatedData.error], 400),
                checked |-> TRUE]
          ELSE [resp |-> json([data |-> validatedData.data], 201), checked |-> TRUE]

updateHandler(b) ==
  IF b.ch = "throw" THEN [resp |-> handleError(b.v), checked |-> FALSE]
  ELSE IF b.v.t = "NorteError"
  THEN [resp |-> json(createErrorResponse(b.v), b.v.statusCode), checked |-> FALSE]
  ELSE LET validatedData == validateSchema(b.v)
       IN IF ~validatedData.success
          THEN [resp |-> json([error |-> "INVALID_DATA", details |-> validatedData.error], 400),
                checked |-> TRUE]
          ELSE [resp |-> json([data |-> validatedData.data], 200), checked |-> TRUE]

readHandler(b) ==
  IF b.ch = "throw" THEN [resp |-> handleError(b.v), checked |-> FALSE]
  ELSE IF b.v.t = "NorteError"
  THEN [resp |-> json(createErrorResponse(b.v), b.v.statusCode), checked |-> FALSE]
  ELSE LET validatedData == validateSchema(b.v)
       IN IF ~validatedData.success
          THEN [resp |-> json([error |-> "INVALID_DATA", details |-> validatedData.error], 400),
                checked |-> TRUE]
          ELSE [resp |-> json([data |-> validatedData.data], 200), checked |-> TRUE]

\* deleteHandler validating and sending the returned value like read
deleteHandlerValidating(b) ==
  IF b.ch = "throw" THEN [resp |-> handleError(b.v), checked |-> FALSE]
  ELSE IF b.v.t = "NorteError"
  THEN [resp |-> json(createErrorResponse(b.v), b.v.statusCode), checked |-> FALSE]
  ELSE LET validatedData == validateSchema(b.v)
       IN IF ~validatedData.success
          THEN [resp |-> json([error |-> "INVALID_DATA", details |-> validatedData.error], 400),
                checked |-> TRUE]
          ELSE [resp |-> json([data |-> validatedData.data], 200), checked |-> TRUE]

deleteHandler(b) ==
  IF b.ch = "throw" THEN [resp |-> handleError(b.v), checked |-> FALSE]
  ELSE IF b.v.t = "NorteError"
  THEN [resp |-> json(createErrorResponse(b.v), b.v.statusCode), checked |-> FALSE]
  ELSE [resp |-> bodyNull(204), checked |-> FALSE]

Settle(op, b) ==
  CASE op = "list" -> listHandler(b)
    [] op = "create" -> createHandler(b)
    [] op = "update" -> updateHandler(b)
    [] op = "read" -> readHandler(b)
    [] op = "delete" -> deleteHandler(b)

\* inputCheck handing the body on without checking it
inputCheckSkipped(schema, input) == [ok |-> TRUE, ran |-> FALSE, input |-> input]

\* create and update: the check of c.req.valid('json') against config.input
\* that opens the route handler
inputCheck(schema, input) ==
  LET validatedInput == inputSafeParse(schema, input)
  IN IF validatedInput.threw
     THEN [ok |-> FALSE, ran |-> FALSE, resp |-> handleError(validatedInput.error)]
     ELSE IF ~validatedInput.success
     THEN [ok |-> FALSE, ran |-> TRUE,
           resp |-> json([error |-> "INVALID_INPUT", details |-> validatedInput.error], 400)]
     ELSE [ok |-> TRUE, ran |-> TRUE, input |-> validatedInput.data]

\* ------------------------------------------------------------------ actions
\* a response kept in one slot of the application instead of the request's
\* own context
RespondShared(r, response) ==
  /\ out' = [out EXCEPT ![1] = Append(@, response)]
  /\ pc' = [pc EXCEPT ![r] = "done"]
  /\ chain' = [chain EXCEPT ![r] = <<>>]

Respond(r, response) ==
  /\ out' = [out EXCEPT ![r] = Append(@, response)]
  /\ pc' = [pc EXCEPT ![r] = "done"]
  /\ chain' = [chain EXCEPT ![r] = <<>>]

\* next(): hand the request to the following step of the route
NextStep(r) ==
  /\ chain' = [chain EXCEPT ![r] = Tail(@)]
  /\ UNCHANGED <<pc, out>>

\* a global middleware that answers 401 itself when no session resolves
authMiddlewareRejecting(r) ==
  /\ pc[r] = "auth"
  /\ LET s == getSession(req[r].cred)
     IN IF s.t = "null"
        THEN /\ user' = [user EXCEPT ![r] = Null]
             /\ session' = [session EXCEPT ![r] = Null]
             /\ Respond(r, json([error |-> "UNAUTHORIZED"], 401))
        ELSE /\ user' = [user EXCEPT ![r] = s.user]
             /\ session' = [session EXCEPT ![r] = s.session]
             /\ pc' = [pc EXCEPT ![r] = "match"]
             /\ UNCHANGED <<chain, out>>
  /\ ran' = [ran EXCEPT ![r] = Append(@, "authMiddleware")]
  /\ UNCHANGED <<req, validated, calls>>
  /\ UNCHANGED setup

\* the Routers a request is routed through: stores, its products, their
\* variants
ReqChain == <<stores, products, variants>>

RECURSIVE ReqNodes(_)
ReqNodes(k) ==
  IF k = 0 THEN <<>>
  ELSE LET ns == ReqNodes(k - 1) IN Append(ns, Router(ns, k - 1, ReqChain[k]))

\* this.router.openapi(definition, handler): the route a registration adds,
\* with the steps it runs and the parameters its path binds
Route(op, config, ns, i) ==
  [op |-> op, definition |-> Definition(op, config, ns, i),
   steps |-> openapi(Definition(op, config, ns, i)),
   names |-> pathParams(Definition(op, config, ns, i).path)]

\* the Routers of the application that serves request q: the chain down to
\* the node q is routed to, which registered q's operation
Serving(q) ==
  LET ns == ReqNodes(q.depth + 1)
  IN [ns EXCEPT ![q.depth + 1].router = <<Route(q.op, Config(q), ns, q.depth + 1)>>]

\* the Routers of the application that serves q1 and q2: the chain down to
\* the deeper of their nodes, q1's operation registered first and q2's after
\* it unless it is the same route
ServingBoth(q1, q2) ==
  LET deeper == IF q1.depth >= q2.depth THEN q1.depth ELSE q2.depth
      ns == ReqNodes(deeper + 1)
      first == [ns EXCEPT ![q1.depth + 1].router =
                            <<Route(q1.op, Config(q1), ns, q1.depth + 1)>>]
  IN IF q2.op = q1.op /\ q2.depth = q1.depth THEN first
     ELSE [first EXCEPT ![q2.depth + 1].router =
                          Append(@, Route(q2.op, Config(q2), ns, q2.depth + 1))]

\* the middlewares an application adds with middleware(...)
Customs == {"cors", "timing"}

\* this.hono.use(handler): the middleware joins the routes of the hono, after
\* everything added before it
honoUse(rs, name) ==
  Append(rs, [t |-> "use", name |-> name, node |-> 0, k |-> 0])

\* this.hono.route('/', sub): the routes the sub-application holds join the
\* routes of the hono, at the paths they were registered with; each is kept
\* as the k-th route of Router i
honoRoute(rs, i, sub) ==
  rs \o [k \in DOMAIN sub |-> [t |-> "route", name |-> "", node |-> i, k |-> k]]

\* the route a route entry of the hono stands for
RouteAt(e) == nodes[e.node].router[e.k]

\* new Norte(config): setupMiddlewares, then setupAuth. The handlers of
\* /auth/**, of the documentation and of /healthcheck answer other paths
\* than those of a Router and are left out.
Norte ==
  [routes |-> honoUse(honoUse(honoUse(<<>>, "logger"), "prettyJSON"), "authMiddleware"),
   registered |-> <<>>]

\* register mounting the node together with the Router it was nested under
registerWithParent(a, ns, i) ==
  LET own == [routes |-> honoRoute(a.routes, i, ns[i].router),
              registered |-> Append(a.registered, i)]
  IN IF ns[i].parent = 0 THEN own
     ELSE [own EXCEPT !.routes = honoRoute(@, ns[i].parent, ns[ns[i].parent].router)]

\* register(router): this.hono.route('/', Router.getRouterForRoute(router));
\* registered keeps the arguments of the calls
registerOn(a, ns, i) ==
  [routes |-> honoRoute(a.routes, i, ns[i].router),
   registered |-> Append(a.registered, i)]

\* the application that registered the first k of the Routers ns, in order
RECURSIVE App(_, _)
App(ns, k) == IF k = 0 THEN Norte ELSE registerOn(App(ns, k - 1), ns, k)

\* the routes of the application that answer request q: those of its method
\* and path, which are those its node registered for its operation
Matching(q) ==
  {k \in DOMAIN app.routes : /\ app.routes[k].t = "route"
                             /\ app.routes[k].node = q.depth + 1
                             /\ RouteAt(app.routes[k]).op = q.op}

First(at) == CHOOSE k \in at : \A j \in at : k <= j

\* the route request q is dispatched to: the first that answers it
Served(q) == RouteAt(app.routes[First(Matching(q))])

IsUse(e) == e.t = "use"

\* what runs for request q once authMiddleware has called next(): the
\* middlewares added before the route that answers q, in the order added, then
\* the steps of that route; every middleware and then the handler of hono for
\* an unknown path when no route answers q
Dispatch(q) ==
  LET gate == First({k \in DOMAIN app.routes : app.routes[k].name = "authMiddleware"})
      upto == IF Matching(q) = {} THEN Len(app.routes) ELSE First(Matching(q)) - 1
      uses == SelectSeq(SubSeq(app.routes, gate + 1, upto), IsUse)
      names == [k \in DOMAIN uses |-> uses[k].name]
  IN names \o (IF Matching(q) = {} THEN <<"notFound">> ELSE Served(q).steps)

\* the global middleware that resolves the session
authMiddleware(r) ==
  /\ pc[r] = "auth"
  /\ LET s == getSession(req[r].cred)
     IN IF s.t = "null"
        THEN /\ user' = [user EXCEPT ![r] = Null]
             /\ session' = [session EXCEPT ![r] = Null]
        ELSE /\ user' = [user EXCEPT ![r] = s.user]
             /\ session' = [session EXCEPT ![r] = s.session]
  /\ pc' = [pc EXCEPT ![r] = "match"]
  /\ ran' = [ran EXCEPT ![r] = Append(@, "authMiddleware")]
  /\ UNCHANGED <<req, chain, validated, calls, out>>
  /\ UNCHANGED setup

\* the application hands the request to the route the node registered
Match(r) ==
  /\ pc[r] = "match"
  /\ chain' = [chain EXCEPT ![r] = Dispatch(req[r])]
  /\ pc' = [pc EXCEPT ![r] = "route"]
  /\ UNCHANGED <<req, ran, session, user, validated, calls, out>>
  /\ UNCHANGED setup

AtStep(r, step) == pc[r] = "route" /\ chain[r] # <<>> /\ Head(chain[r]) = step

\* privateMiddleware answering 401 without returning: the request goes on
privateMiddlewareNoReturn(r) ==
  /\ AtStep(r, "privateMiddleware")
  /\ IF Falsy(session[r])
     THEN /\ out' = [out EXCEPT ![r] = Append(@, json([error |-> "UNAUTHORIZED"], 401))]
          /\ chain' = [chain EXCEPT ![r] = Tail(@)]
          /\ UNCHANGED pc
     ELSE NextStep(r)
  /\ UNCHANGED <<req, ran, session, user, validated, calls>>
  /\ UNCHANGED setup

privateMiddleware(r) ==
  /\ AtStep(r, "privateMiddleware")
  /\ IF Falsy(session[r])
     THEN Respond(r, json([error |-> "UNAUTHORIZED"], 401))
     ELSE NextStep(r)
  /\ UNCHANGED <<req, ran, session, user, validated, calls>>
  /\ UNCHANGED setup

\* the transport's validator of the path parameters the definition declares
ValidateParams(r) ==
  /\ AtStep(r, "param")
  /\ validated' = [validated EXCEPT ![r] = @ \cup {"param"}]
  /\ IF req[r].paramsOk THEN NextStep(r) ELSE Respond(r, transportReject)
  /\ UNCHANGED <<req, ran, session, user, calls>>
  /\ UNCHANGED setup

\* the transport's reading of the JSON body the definition declares; the
\* route handler picks its result up with c.req.valid('json')
ValidateJson(r) ==
  /\ AtStep(r, "json")
  /\ validated' = [validated EXCEPT ![r] = @ \cup {"json"}]
  /\ NextStep(r)
  /\ UNCHANGED <<req, ran, session, user, calls>>
  /\ UNCHANGED setup

\* the param object the route handler builds for the application handler
HandlerParam(q) ==
  IF impl = "router.ts"
  THEN inlineParameters(nodes, q.depth + 1, Served(q).names,
                        Served(q).definition.instance)
  ELSE extractParameters(nodes, q.depth + 1, Served(q).names,
                         Served(q).definition.instance)

\* handler arguments that carry the session but never the user
ArgsWithoutUser(r, input) ==
  [session |-> session[r], user |-> Null, input |-> input,
   param |-> HandlerParam(req[r])]

Args(r, input) ==
  [session |-> session[r], user |-> user[r], input |-> input,
   param |-> HandlerParam(req[r])]

\* the route handler up to the await of the application handler
HandlerStart(r) ==
  /\ AtStep(r, "handler")
  /\ IF HasBody(req[r].op)
     THEN LET c == inputCheck(req[r].input, req[r].body)
          IN /\ validated' = [validated EXCEPT ![r] = IF c.ran THEN @ \cup {"input"} ELSE @]
             /\ IF ~c.ok
                THEN Respond(r, c.resp) /\ UNCHANGED calls
                ELSE /\ calls' = [calls EXCEPT ![r] = Append(@, Args(r, c.input))]
                     /\ pc' = [pc EXCEPT ![r] = "await"]
                     /\ chain' = [chain EXCEPT ![r] = Tail(@)]
                     /\ UNCHANGED out
     ELSE /\ calls' = [calls EXCEPT ![r] = Append(@, Args(r, "none"))]
          /\ pc' = [pc EXCEPT ![r] = "await"]
          /\ chain' = [chain EXCEPT ![r] = Tail(@)]
          /\ UNCHANGED <<validated, out>>
  /\ UNCHANGED <<req, ran, session, user>>
  /\ UNCHANGED setup

\* a route handler without the catch block: what the application handler
\* throws that is no Error Value leaves the request unanswered
HandlerSettleUncaught(r) ==
  /\ pc[r] = "await"
  /\ ~(req[r].behaviour.ch = "throw" /\ req[r].behaviour.v.t # "NorteError")
  /\ LET s == Settle(req[r].op, req[r].behaviour)
     IN /\ Respond(r, s.resp)
        /\ validated' = [validated EXCEPT ![r] = IF s.checked THEN @ \cup {"data"} ELSE @]
  /\ UNCHANGED <<req, ran, session, user, calls>>
  /\ UNCHANGED setup

\* the application handler settles and the route handler answers
HandlerSettle(r) ==
  /\ pc[r] = "await"
  /\ LET s == Settle(req[r].op, req[r].behaviour)
     IN /\ Respond(r, s.resp)
        /\ validated' = [validated EXCEPT ![r] = IF s.checked THEN @ \cup {"data"} ELSE @]
  /\ UNCHANGED <<req, ran, session, user, calls>>
  /\ UNCHANGED setup

Step(r) ==
  \/ authMiddleware(r)
  \/ Match(r)
  \/ privateMiddleware(r)
  \/ ValidateParams(r)
  \/ ValidateJson(r)
  \/ HandlerStart(r)
  \/ HandlerSettle(r)

Next == \E r \in Rids : Step(r)

\* no list, create, read, update or delete call returned yet
NoReturn == [node |-> 0, op |-> "none", form |-> "none", value |-> 0, before |-> 0]

\* nothing constructed and no request served yet; every Router there is was
\* registered with the application, and a request about to enter
\* authMiddleware has passed the two middlewares added before it
Fresh ==
  /\ made = <<>>
  /\ app = App(nodes, Len(nodes))
  /\ ret = NoReturn
  /\ ran = [r \in Rids |-> IF pc[r] = "auth" THEN <<"logger", "prettyJSON">> ELSE <<>>]
  /\ session = [r \in Rids |-> Unset]
  /\ user = [r \in Rids |-> Unset]
  /\ chain = [r \in Rids |-> <<>>]
  /\ validated = [r \in Rids |-> {}]
  /\ calls = [r \in Rids |-> <<>>]
  /\ out = [r \in Rids |-> <<>>]

\* one request, any route, any handler
Init ==
  /\ impl \in Impls
  /\ \E q \in Requests :
       /\ req = [r \in Rids |-> IF r = 1 THEN q ELSE NoRequest]
       /\ nodes = Serving(q)
  /\ pc = [r \in Rids |-> IF r = 1 THEN "auth" ELSE "idle"]
  /\ Fresh

Spec == Init /\ [][Next]_vars

\* one request to a route of any caller, a create or update registered
\* without its input schema included
InitAny ==
  /\ impl \in Impls
  /\ \E q \in AnyRequests :
       /\ req = [r \in Rids |-> IF r = 1 THEN q ELSE NoRequest]
       /\ nodes = Serving(q)
  /\ pc = [r \in Rids |-> IF r = 1 THEN "auth" ELSE "idle"]
  /\ Fresh

SpecAny == InitAny /\ [][Next]_vars

\* the same requests when the session resolution and the application handler
\* complete: every awaited promise settles, so a request that can take its
\* next step takes it
SpecLive == Init /\ [][Next]_vars /\ \A r \in Rids : WF_vars(Step(r))

\* two requests to the same route with the same handler outcome e, the
\* first handler returning e and the second throwing it
InitTwin ==
  /\ impl \in Impls
  /\ \E q \in Requests :
       /\ q.behaviour.ch = "return"
       /\ q.behaviour.v \in NorteErrors
       /\ req = [r \in Rids |-> IF r = 1 THEN q ELSE [q EXCEPT !.behaviour.ch = "throw"]]
       /\ nodes = Serving(q)
  /\ pc = [r \in Rids |-> "auth"]
  /\ Fresh

SpecTwin == InitTwin /\ [][Next]_vars

\* two requests served concurrently by one application, the handler of the
\* second returning data, or the first of them alone
PairBehaviours ==
  {[ch |-> "return", v |-> [t |-> "object", ok |-> TRUE, extra |-> FALSE]],
   [ch |-> "throw", v |-> NorteError("NOT_FOUND", "x not found", Undefined)]}

PairRequests ==
  {q \in Requests : /\ q.form = "config" /\ q.isPublic \in {"undefined", "true"}
                    /\ q.paramsOk /\ q.body # "bad"
                    /\ q.behaviour \in PairBehaviours}

InitPair ==
  /\ impl \in Impls
  /\ \E q1 \in PairRequests :
       \/ /\ req = [r \in Rids |-> IF r = 1 THEN q1 ELSE NoRequest]
          /\ pc = [r \in Rids |-> IF r = 1 THEN "auth" ELSE "idle"]
          /\ nodes = Serving(q1)
       \/ \E q2 \in PairRequests :
            /\ q2.behaviour.ch = "return"
            /\ (q2.op = q1.op /\ q2.depth = q1.depth) => q2.isPublic = q1.isPublic
            /\ req = [r \in Rids |-> IF r = 1 THEN q1 ELSE q2]
            /\ pc = [r \in Rids |-> "auth"]
            /\ nodes = ServingBoth(q1, q2)
  /\ Fresh

SpecPair == InitPair /\ [][Next]_vars

\* ---------------------------------------------- setting up the application
\* the middleware(...) and the register(...) calls an application makes
MaxUse == 2

MaxMounts == 2

\* hono's answer to a request no route matches
notFoundResponse == [type |-> "text", status |-> 404]

Idle == \A r \in Rids : pc[r] = "idle"

\* middleware(handler): this.hono.use(handler)
middleware(name) ==
  /\ Idle
  /\ Len(SelectSeq(app.routes, IsUse)) < Len(Norte.routes) + MaxUse
  /\ app' = [app EXCEPT !.routes = honoUse(@, name)]
  /\ UNCHANGED <<req, pc, session, user, chain, validated, calls, out, made, impl,
                 nodes, ran, ret>>

\* register(router)
register(i) ==
  /\ Idle
  /\ Len(app.registered) < MaxMounts
  /\ app' = registerOn(app, nodes, i)
  /\ UNCHANGED <<req, pc, session, user, chain, validated, calls, out, made, impl,
                 nodes, ran, ret>>

\* fetch: request q enters the routes of the hono at the first of them
fetch(r, q) ==
  /\ Idle
  /\ req' = [req EXCEPT ![r] = q]
  /\ pc' = [pc EXCEPT ![r] = "logger"]
  /\ UNCHANGED <<session, user, chain, validated, calls, out, ran>>
  /\ UNCHANGED setup

\* logger(): logs around next()
logger(r) ==
  /\ pc[r] = "logger"
  /\ ran' = [ran EXCEPT ![r] = Append(@, "logger")]
  /\ pc' = [pc EXCEPT ![r] = "prettyJSON"]
  /\ UNCHANGED <<req, session, user, chain, validated, calls, out>>
  /\ UNCHANGED setup

\* prettyJSON(): formats the response after next()
prettyJSON(r) ==
  /\ pc[r] = "prettyJSON"
  /\ ran' = [ran EXCEPT ![r] = Append(@, "prettyJSON")]
  /\ pc' = [pc EXCEPT ![r] = "auth"]
  /\ UNCHANGED <<req, session, user, chain, validated, calls, out>>
  /\ UNCHANGED setup

\* a middleware added with middleware(...) runs and calls next()
custom(r) ==
  /\ pc[r] = "route" /\ chain[r] # <<>> /\ Head(chain[r]) \in Customs
  /\ ran' = [ran EXCEPT ![r] = Append(@, Head(chain[r]))]
  /\ NextStep(r)
  /\ UNCHANGED <<req, session, user, validated, calls>>
  /\ UNCHANGED setup

\* no route of the hono matches the request
notFound(r) ==
  /\ AtStep(r, "notFound")
  /\ Respond(r, notFoundResponse)
  /\ UNCHANGED <<req, ran, session, user, validated, calls>>
  /\ UNCHANGED setup

\* the requests to an application of two Routers, stores and its products:
\* stores registered a public list and products a create
AppRequests ==
  {q \in Requests :
     /\ q.form = "config"
     /\ q.behaviour \in PairBehaviours
     /\ \/ q.op = "list" /\ q.depth = 0 /\ q.isPublic = "true" /\ q.paramsOk
        \/ q.op = "create" /\ q.depth = 1 /\ q.isPublic = "undefined"}

AppNodes ==
  ServingBoth(CHOOSE q \in AppRequests : q.op = "list",
              CHOOSE q \in AppRequests : q.op = "create")

InitApp ==
  /\ impl \in Impls
  /\ nodes = AppNodes
  /\ req = [r \in Rids |-> NoRequest]
  /\ pc = [r \in Rids |-> "idle"]
  /\ made = <<>>
  /\ app = Norte
  /\ ret = NoReturn
  /\ ran = [r \in Rids |-> <<>>]
  /\ session = [r \in Rids |-> Unset]
  /\ user = [r \in Rids |-> Unset]
  /\ chain = [r \in Rids |-> <<>>]
  /\ validated = [r \in Rids |-> {}]
  /\ calls = [r \in Rids |-> <<>>]
  /\ out = [r \in Rids |-> <<>>]

NextApp ==
  \/ \E name \in Customs : middleware(name)
  \/ \E i \in DOMAIN nodes : register(i)
  \/ \E q \in AppRequests : fetch(1, q)
  \/ \E r \in Rids : logger(r)
  \/ \E r \in Rids : prettyJSON(r)
  \/ \E r \in Rids : custom(r)
  \/ \E r \in Rids : notFound(r)
  \/ \E r \in Rids : Step(r)

SpecApp == InitApp /\ [][NextApp]_vars

\* ------------------------------------------------- constructing Error Values
\* new NorteError(code, message, details)
Construct(code, message, details) ==
  /\ Len(made) < MaxMade
  /\ made' = Append(made, [code |-> code, message |-> message, details |-> details,
                           value |-> NorteError(code, message, details)])
  /\ UNCHANGED <<req, pc, session, user, chain, validated, calls, out, impl, nodes,
               app, ran, ret>>

NextError ==
  \E code \in GivenCodes, message \in Messages, details \in DetailsValues :
    Construct(code, message, details)

InitError ==
  /\ impl \in Impls
  /\ nodes = <<>>
  /\ req = [r \in Rids |-> NoRequest]
  /\ pc = [r \in Rids |-> "idle"]
  /\ Fresh

SpecError == InitError /\ [][NextError]_vars

\* ------------------------------------------------- constructing the Routers
RECURSIVE routes(_)
routes(ns) ==
  IF ns = <<>> THEN 0
  ELSE Len(ns[Len(ns)].router) + routes(SubSeq(ns, 1, Len(ns) - 1))

\* new Router(domain, config) when parent = 0, new Router(parent, domain,
\* config) otherwise
NewRouter(parent, domain) ==
  /\ Len(nodes) < MaxNodes
  /\ nodes' = Append(nodes, Router(nodes, parent, domain))
  /\ UNCHANGED <<req, pc, session, user, chain, validated, calls, out, made, impl,
               app, ran, ret>>

\* node i registers operation op with the config its arguments resolve to
Register(i, op, config) ==
  /\ nodes' = [nodes EXCEPT ![i].router = Append(@, Route(op, config, nodes, i))]
  /\ UNCHANGED <<req, pc, session, user, chain, validated, calls, out, made, impl,
               app, ran>>

\* a registration method handing back the sub-application of its node
returnRouter(i, op, form) ==
  [node |-> i, op |-> op, form |-> form, value |-> 0,
   before |-> Len(nodes[i].router)]

\* return this: the call evaluates to the Router it was made on; form is the
\* call form and before the number of routes the node held
returnThis(i, op, form) ==
  [node |-> i, op |-> op, form |-> form, value |-> i,
   before |-> Len(nodes[i].router)]

FormOf(configOrHandler) ==
  IF configOrHandler.t = "function" THEN "handler" ELSE "config"

list(i, configOrHandler) ==
  /\ Register(i, "list", resolveHandlerArgs(configOrHandler).config)
  /\ ret' = returnThis(i, "list", FormOf(configOrHandler))

create(i, config) ==
  /\ Register(i, "create", config)
  /\ ret' = returnThis(i, "create", "config")

update(i, config) ==
  /\ Register(i, "update", config)
  /\ ret' = returnThis(i, "update", "config")

read(i, configOrHandler) ==
  /\ Register(i, "read", resolveHandlerArgs(configOrHandler).config)
  /\ ret' = returnThis(i, "read", FormOf(configOrHandler))

delete(i, configOrHandler) ==
  /\ Register(i, "delete", resolveHandlerArgs(configOrHandler).config)
  /\ ret' = returnThis(i, "delete", FormOf(configOrHandler))

\* what an application hands to a registration
ConfigsOrHandlers ==
  {[t |-> "function"]} \cup {[t |-> "object", isPublic |-> p] : p \in IsPublicValues}

Configs == {[isPublic |-> p, input |-> "schema"] : p \in IsPublicValues}

\* the registrations of up to most routes in all
Registrations(most) ==
  \/ \E i \in DOMAIN nodes, configOrHandler \in ConfigsOrHandlers :
       routes(nodes) < most /\ list(i, configOrHandler)
  \/ \E i \in DOMAIN nodes, config \in Configs :
       routes(nodes) < most /\ create(i, config)
  \/ \E i \in DOMAIN nodes, config \in Configs :
       routes(nodes) < most /\ update(i, config)
  \/ \E i \in DOMAIN nodes, configOrHandler \in ConfigsOrHandlers :
       routes(nodes) < most /\ read(i, configOrHandler)
  \/ \E i \in DOMAIN nodes, configOrHandler \in ConfigsOrHandlers :
       routes(nodes) < most /\ delete(i, configOrHandler)

NextSetup ==
  \/ \E parent \in 0..Len(nodes), domain \in Domains : NewRouter(parent, domain)
  \/ Registrations(MaxRoutes)

InitSetup ==
  /\ impl \in Impls
  /\ nodes = <<>>
  /\ req = [r \in Rids |-> NoRequest]
  /\ pc = [r \in Rids |-> "idle"]
  /\ Fresh

SpecSetup == InitSetup /\ [][NextSetup]_vars

\* chained registrations: a Router and a Router nested under it, and up to
\* MaxChain list, create, read, update and delete calls made on them
MaxChain == 2

InitChain ==
  /\ impl \in Impls
  /\ nodes = ReqNodes(2)
  /\ req = [r \in Rids |-> NoRequest]
  /\ pc = [r \in Rids |-> "idle"]
  /\ Fresh

NextChain == Registrations(MaxChain)

SpecChain == InitChain /\ [][NextChain]_vars

\* ------------------------------------------------------- claim vocabulary
\* the derived parameter name as the specification words it
DerivedName(d) ==
  (IF endsWith(d, <<"i", "e", "s">>) /\ Len(d) > 3 THEN sliceEnd(d, 3) \o <<"y">>
   ELSE IF endsWith(d, <<"s">>) /\ Len(d) > 1 THEN sliceEnd(d, 1)
   ELSE d) \o Id

\* the ancestors of node i, root first
RECURSIVE Ancestors(_, _)
Ancestors(ns, i) ==
  IF ns[i].parent = 0 THEN <<>>
  ELSE Append(Ancestors(ns, ns[i].parent), ns[i].parent)

\* the parameter names of the ancestors of node i, as the code derives them
AncestorParams(ns, i) ==
  [k \in DOMAIN Ancestors(ns, i) |-> getDomainParam(ns[Ancestors(ns, i)[k]].domain)]

InstanceOps == {"read", "update", "delete"}

\* what request q resolves to by itself: its session and user
OwnSession(q) ==
  IF getSession(q.cred).t = "null" THEN [session |-> Null, user |-> Null]
  ELSE [session |-> getSession(q.cred).session, user |-> getSession(q.cred).user]

\* the stage at which the pipeline of request q, processed alone, answers
OwnStage(q) ==
  LET route == Served(q)
  IN IF "privateMiddleware" \in {route.steps[k] : k \in DOMAIN route.steps}
          /\ OwnSession(q).session = Null THEN "session"
     ELSE IF route.definition.params # <<>> /\ ~q.paramsOk THEN "param"
     ELSE IF HasBody(q.op) /\ ~inputCheck(q.input, q.body).ok THEN "input"
     ELSE "handler"

\* the response request q gets when processed alone
OwnResponse(q) ==
  CASE OwnStage(q) = "session" -> json([error |-> "UNAUTHORIZED"], 401)
    [] OwnStage(q) = "param" -> transportReject
    [] OwnStage(q) = "input" -> inputCheck(q.input, q.body).resp
    [] OwnStage(q) = "handler" -> Settle(q.op, q.behaviour).resp

\* the arguments the handler of request q gets when processed alone
OwnArgs(q) ==
  [session |-> OwnSession(q).session, user |-> OwnSession(q).user,
   input |-> IF HasBody(q.op) THEN inputCheck(q.input, q.body).input ELSE "none",
   param |-> LET names == Served(q).names
             IN [name \in {names[k] : k \in DOMAIN names} |-> reqParam(names, name)]]

Verb(op) ==
  CASE op = "list" -> "get"
    [] op = "create" -> "post"
    [] op = "read" -> "get"
    [] op = "update" -> "patch"
    [] op = "delete" -> "delete"

Active == {r \in Rids : req[r].op # "none"}

Done(r) == pc[r] = "done"

Invoked(r) == calls[r] # <<>>

\* registered without isPublic: true
Protected(q) == q.isPublic # "true"

Answered(r) == Done(r) /\ Len(out[r]) = 1

Response(r) == out[r][1]

ReturnsError(q) == q.behaviour.ch = "return" /\ q.behaviour.v.t = "NorteError"

ThrowsError(q) == q.behaviour.ch = "throw" /\ q.behaviour.v.t = "NorteError"

ReturnsData(q) == q.behaviour.ch = "return" /\ q.behaviour.v.t # "NorteError"

\* the status fixed for each kind
KindStatus(k) ==
  CASE k = "INVALID_INPUT" -> 400
    [] k = "UNAUTHORIZED" -> 401
    [] k = "FORBIDDEN" -> 403
    [] k = "NOT_FOUND" -> 404
    [] k = "CONFLICT" -> 409
    [] k = "INTERNAL_SERVER_ERROR" -> 500

\* v is one instance of the response schema
IsInstance(v) == v.t = "object" /\ v.ok

\* v satisfies the response schema of operation op
Conforms(op, v) ==
  IF op = "list"
  THEN v.t = "array" /\ \A i \in DOMAIN v.elems : IsInstance(v.elems[i])
  ELSE IsInstance(v)

\* v as the response schema hands it back
Clean(v) ==
  IF v.t = "array"
  THEN [t |-> "array", elems |-> [i \in DOMAIN v.elems |-> [v.elems[i] EXCEPT !.extra = FALSE]]]
  ELSE [v EXCEPT !.extra = FALSE]

\* ------------------------------------------------------------------ claims
\* C1: a request without a session to an operation registered without
\* isPublic: true is answered 401 with error "UNAUTHORIZED", and the
\* application handler is not invoked for it.
C1_Unauthorized ==
  \A r \in Active :
    (Protected(req[r]) /\ session[r] = Null) =>
      /\ ~Invoked(r)
      /\ pc[r] # "await"
      /\ Done(r) =>
           /\ Answered(r)
           /\ Response(r).type = "json"
           /\ Response(r).status = 401
           /\ Response(r).body.error = "UNAUTHORIZED"

C1_Witness ==
  \E r \in Active :
    /\ Protected(req[r]) /\ session[r] = Null /\ Answered(r)
    /\ Response(r).status = 401
    /\ req[r].isPublic = "false"

\* C2: for a protected operation and a request without a session, neither
\* the path-parameter validation nor any body validation runs; the request
\* ends with the 401.
C2_AuthBeforeValidation ==
  \A r \in Active :
    (Protected(req[r]) /\ session[r] = Null) =>
      /\ validated[r] = {}
      /\ Done(r) => (Answered(r) /\ Response(r).status = 401)

C2_Witness ==
  \E r \in Active :
    /\ Protected(req[r]) /\ session[r] = Null /\ Answered(r)
    /\ Response(r).status = 401
    /\ HasBody(req[r].op) /\ req[r].body = "bad" /\ ~req[r].paramsOk
    /\ validated[r] = {}

C4_ReturnedError ==
  \A r \in Active :
    (ReturnsError(req[r]) /\ Done(r) /\ Invoked(r)) =>
      LET e == req[r].behaviour.v
      IN /\ Answered(r)
         /\ Response(r).type = "json"
         /\ Response(r).status = KindStatus(e.code)
         /\ Response(r).body.error = e.code
         /\ Response(r).body.message = e.message
         /\ DOMAIN Response(r).body \subseteq {"error", "message", "details"}
         /\ e.details = Undefined => DOMAIN Response(r).body = {"error", "message"}
         /\ "data" \notin validated[r]

C4_Witness ==
  \E r \in Active :
    /\ ReturnsError(req[r]) /\ Answered(r) /\ Invoked(r)
    /\ req[r].behaviour.v.code = "NOT_FOUND"
    /\ req[r].behaviour.v.message = "x not found"
    /\ req[r].behaviour.v.details = Undefined
    /\ Response(r).status = 404
    /\ DOMAIN Response(r).body = {"error", "message"}

\* C5: on the same operation, a handler that throws an Error Value e and a
\* handler that returns e are answered with the same status and body.
C5_ThrowEqualsReturn ==
  \A r1, r2 \in Active :
    ( /\ ReturnsError(req[r1]) /\ ThrowsError(req[r2])
      /\ req[r1].op = req[r2].op
      /\ req[r1].behaviour.v = req[r2].behaviour.v
      /\ Done(r1) /\ Invoked(r1) /\ Done(r2) /\ Invoked(r2) ) =>
      /\ Answered(r1) /\ Answered(r2)
      /\ Response(r1) = Response(r2)

C5_Witness ==
  /\ ReturnsError(req[1]) /\ ThrowsError(req[2])
  /\ req[1].behaviour.v = req[2].behaviour.v
  /\ req[1].behaviour.v.code = "CONFLICT"
  /\ Answered(1) /\ Invoked(1) /\ Answered(2) /\ Invoked(2)
  /\ Response(2).status = 409

\* C6: a handler that throws something that is not an Error Value is
\* answered 500 with error "INTERNAL_SERVER_ERROR"; details is the message
\* of the thrown Error (the empty string for an Error made without one) and
\* is absent when the thrown value is not an Error; the body has no other
\* key, so nothing of the stack.
C6_UnexpectedFailure ==
  \A r \in Active :
    ( /\ req[r].behaviour.ch = "throw" /\ req[r].behaviour.v.t # "NorteError"
      /\ Done(r) /\ Invoked(r) ) =>
      LET thrown == req[r].behaviour.v
      IN /\ Answered(r)
         /\ Response(r).type = "json"
         /\ Response(r).status = 500
         /\ Response(r).body.error = "INTERNAL_SERVER_ERROR"
         /\ thrown.t = "Error" =>
              /\ DOMAIN Response(r).body = {"error", "details"}
              /\ Response(r).body.details = Str(thrown.message)
         /\ thrown.t # "Error" => DOMAIN Response(r).body = {"error"}

C6_Witness ==
  \E r \in Active :
    /\ req[r].behaviour.ch = "throw" /\ req[r].behaviour.v.t = "Error"
    /\ req[r].behaviour.v.message = "boom"
    /\ Answered(r) /\ Invoked(r)
    /\ Response(r).status = 500
    /\ Response(r).body.details = Str("boom")

\* C7: for list, create, read and update, a returned non-error value that
\* fails the response schema (list: an array of the schema, the others: one
\* instance) is answered 400 with error "INVALID_DATA" and the validation
\* issues, never "INVALID_INPUT" and never a 2xx status.
C7_InvalidData ==
  \A r \in Active :
    ( /\ req[r].op # "delete" /\ ReturnsData(req[r])
      /\ ~Conforms(req[r].op, req[r].behaviour.v)
      /\ Done(r) /\ Invoked(r) ) =>
      /\ Answered(r)
      /\ Response(r).type = "json"
      /\ Response(r).status = 400
      /\ Response(r).body.error = "INVALID_DATA"
      /\ Response(r).body.error # "INVALID_INPUT"
      /\ Response(r).body.details = ZodError("data")
      /\ "data" \in validated[r]

C7_Witness ==
  \E r \in Active :
    /\ req[r].op = "list" /\ ReturnsData(req[r])
    /\ req[r].behaviour.v.t = "object" /\ req[r].behaviour.v.ok
    /\ Answered(r) /\ Invoked(r)
    /\ Response(r).body.error = "INVALID_DATA"

\* C8: a returned non-error value that passes the response schema is
\* answered {data: the validated value}, with status 201 for create and 200
\* for list, read and update; list with a handler returning [] is answered
\* {data: []} at 200.
C8_Success ==
  \A r \in Active :
    ( /\ req[r].op # "delete" /\ ReturnsData(req[r])
      /\ Conforms(req[r].op, req[r].behaviour.v)
      /\ Done(r) /\ Invoked(r) ) =>
      /\ Answered(r)
      /\ Response(r).type = "json"
      /\ Response(r).status = (IF req[r].op = "create" THEN 201 ELSE 200)
      /\ DOMAIN Response(r).body = {"data"}
      /\ Response(r).body.data = Clean(req[r].behaviour.v)

C8_Witness ==
  \E r \in Active :
    /\ req[r].op = "list" /\ ReturnsData(req[r])
    /\ req[r].behaviour.v = [t |-> "array", elems |-> <<>>]
    /\ Answered(r) /\ Invoked(r)
    /\ Response(r) = json([data |-> [t |-> "array", elems |-> <<>>]], 200)

\* C9: for delete, a handler that completes with any value that is not an
\* Error Value is answered 204 with an empty body; the value is neither
\* validated nor sent.
C9_DeleteNoContent ==
  \A r \in Active :
    (req[r].op = "delete" /\ ReturnsData(req[r]) /\ Done(r) /\ Invoked(r)) =>
      /\ Answered(r)
      /\ Response(r) = bodyNull(204)
      /\ "data" \notin validated[r]

C9_Witness ==
  \E r \in Active :
    /\ req[r].op = "delete" /\ ReturnsData(req[r])
    /\ req[r].behaviour.v.t = "object" /\ ~req[r].behaviour.v.ok
    /\ Answered(r) /\ Invoked(r)
    /\ Response(r).status = 204

\* C10: for every request the application handler is invoked at most once
\* and at most one response is produced, whatever path the request takes.
C10_AtMostOnce ==
  \A r \in Active : Len(calls[r]) <= 1 /\ Len(out[r]) <= 1

C10_Witness ==
  \E r \in Active :
    /\ Done(r) /\ Len(calls[r]) = 1 /\ Len(out[r]) = 1
    /\ req[r].behaviour.ch = "throw"
    /\ Response(r).status = 500

\* C11: every request eventually receives a response, provided the session
\* resolution and the application handler complete: every outcome of the
\* pipeline (rejection, invalid input, Error Value, thrown value, invalid
\* data, success) ends in one response and no request is dropped.
C11_EventuallyAnswered ==
  \A r \in Rids : (pc[r] = "auth") ~> (pc[r] = "done" /\ Len(out[r]) = 1)

C11_Witness ==
  \E r \in Active :
    /\ req[r].behaviour.ch = "throw" /\ req[r].behaviour.v = Str("boom")
    /\ req[r].op = "read" /\ req[r].cred = "valid"
    /\ Invoked(r) /\ Answered(r)

\* C20: the authentication gate never produces a response itself: it sets
\* session and user to the resolved values, or both to null when no session
\* resolves, and passes the request on; a 401 given before the handler is
\* invoked comes only from the check of a protected operation.
C20_GateOnlyResolves ==
  \A r \in Active :
    LET s == getSession(req[r].cred)
    IN /\ pc[r] = "match" => out[r] = <<>>
       /\ pc[r] # "auth" =>
            IF s.t = "null"
            THEN session[r] = Null /\ user[r] = Null
            ELSE session[r] = s.session /\ user[r] = s.user
       /\ (Answered(r) /\ ~Invoked(r) /\ Response(r).status = 401)
            => Protected(req[r]) /\ session[r] = Null

C20_Witness ==
  \E r \in Active :
    /\ pc[r] = "match" /\ req[r].cred = "none"
    /\ session[r] = Null /\ user[r] = Null /\ out[r] = <<>>
    /\ req[r].isPublic = "undefined" /\ req[r].op = "create"

\* C19: an operation is gated by the session check exactly when it was not
\* registered with isPublic: true: registered with a handler only, or with a
\* config whose isPublic is absent or false, a request without a session is
\* answered 401 and its handler is not invoked; registered with isPublic:
\* true, a request is never answered 401 for lack of a session and, when no
\* session resolves, its handler is invoked with session = null and
\* user = null.
C19_GatedUnlessPublic ==
  \A r \in Active :
    LET q == req[r]
        public == q.form = "config" /\ q.isPublic = "true"
    IN /\ (~public /\ session[r] = Null)
            => /\ ~Invoked(r)
               /\ Done(r) => Answered(r) /\ Response(r).status = 401
       /\ (public /\ session[r] = Null)
            => /\ (Done(r) /\ ~Invoked(r)) => Response(r).status # 401
               /\ \A i \in DOMAIN calls[r] :
                    calls[r][i].session = Null /\ calls[r][i].user = Null
               /\ (Done(r) /\ (q.paramsOk \/ (q.op \in {"list", "create"} /\ q.depth = 0))
                           /\ q.body # "bad")
                    => Invoked(r)

C19_Witness ==
  \E r \in Active :
    /\ req[r].form = "config" /\ req[r].isPublic = "true" /\ req[r].cred = "none"
    /\ Invoked(r) /\ calls[r][1].session = Null /\ calls[r][1].user = Null
    /\ Answered(r) /\ Response(r).status = 200

\* C18: every failure response the core produces (the 401 of the session
\* check, the 400 INVALID_INPUT, the 400 INVALID_DATA, the translation of an
\* Error Value, the 500 of an unexpected failure) is a JSON object that
\* contains both error and message.
C18_FailureHasErrorAndMessage ==
  \A r \in Active : \A i \in DOMAIN out[r] :
    (out[r][i].type = "json" /\ out[r][i].status >= 400)
      => {"error", "message"} \subseteq DOMAIN out[r][i].body

\* C12: an Error Value constructed as NorteError(kind, message, details) has
\* code = kind, message = message, details = details (undefined when none is
\* given) and the statusCode fixed for the kind; the statusCode is
\* determined by the kind alone.
C12_ConstructedValue ==
  \A i \in DOMAIN made :
    made[i].code \in ErrorCode =>
      /\ made[i].value.code = made[i].code
      /\ made[i].value.message = made[i].message
      /\ made[i].value.details = made[i].details
      /\ made[i].value.statusCode = KindStatus(made[i].code)
      /\ \A j \in DOMAIN made :
           made[j].code = made[i].code
             => made[j].value.statusCode = made[i].value.statusCode

C12_Witness ==
  /\ Len(made) = 2
  /\ made[1].code = "CONFLICT" /\ made[1].details = Undefined
  /\ made[1].value.statusCode = 409 /\ made[1].value.details = Undefined
  /\ made[2].code = "CONFLICT" /\ made[2].details = [t |-> "object", id |-> 1]
  /\ made[2].message # made[1].message
  /\ made[2].value.statusCode = 409

\* C13: constructing an Error Value with a kind outside the closed set
\* fails: no Error Value exists whose kind is outside the set or whose
\* statusCode is not the one mapped to its kind.
C13_ClosedKinds ==
  \A i \in DOMAIN made :
    /\ made[i].code \in ErrorCode
    /\ made[i].value.statusCode = KindStatus(made[i].code)

\* C14: the derived parameter name of a node with domain d is the singular
\* of d followed by "Id": d ending in "ies" and longer than 3 characters has
\* the "ies" replaced by "y"; otherwise d ending in "s" and longer than 1
\* character loses the "s"; otherwise d is unchanged. Seen where the name is
\* used: the last parameter of a nested node's path is its parent's name.
C14_DerivedParamName ==
  \A i \in DOMAIN nodes :
    nodes[i].parent # 0 =>
      LET names == pathParams(nodes[i].path)
      IN names[Len(names)] = DerivedName(nodes[nodes[i].parent].domain)

\* C15: list is GET and create is POST at the node's full path; read is
\* GET, update PATCH and delete DELETE at the full path followed by "/:" and
\* the node's own derived parameter name; a root's full path is "/" and its
\* domain, a nested node's its parent's full path, "/:", the parent's
\* derived parameter name, "/" and its domain.
C15_RoutePaths ==
  \A i \in DOMAIN nodes :
    /\ nodes[i].path =
         IF nodes[i].parent = 0 THEN Slash \o nodes[i].domain
         ELSE nodes[nodes[i].parent].path \o SlashColon
                \o getDomainParam(nodes[nodes[i].parent].domain)
                \o Slash \o nodes[i].domain
    /\ \A k \in DOMAIN nodes[i].router :
         LET route == nodes[i].router[k]
         IN /\ route.definition.method = Verb(route.op)
            /\ route.definition.path =
                 IF route.op \in InstanceOps
                 THEN nodes[i].path \o SlashColon \o getDomainParam(nodes[i].domain)
                 ELSE nodes[i].path

\* C16: the param schema of list and create requires exactly the derived
\* parameter names of the node's ancestors, root first; the param schema of
\* read, update and delete requires exactly those and the node's own derived
\* parameter name. A schema is an object: a name it requires is one key.
C16_ParamSchemas ==
  \A i \in DOMAIN nodes : \A k \in DOMAIN nodes[i].router :
    LET route == nodes[i].router[k]
    IN route.definition.params =
         IF route.op \in InstanceOps
         THEN keys(AncestorParams(nodes, i) \o <<getDomainParam(nodes[i].domain)>>)
         ELSE keys(AncestorParams(nodes, i))

\* C17: the param object handed to the application handler of read, update
\* and delete holds every ancestor's parameter under its derived name and the
\* node's own identifier under the key id; that of list and create holds
\* exactly the ancestors' parameters.
C17_HandlerParam ==
  \A r \in Active : \A k \in DOMAIN calls[r] :
    LET i == req[r].depth + 1
        ancestors == {AncestorParams(nodes, i)[j] : j \in DOMAIN AncestorParams(nodes, i)}
        param == calls[r][k].param
    IN /\ DOMAIN param =
            IF req[r].op \in InstanceOps THEN ancestors \cup {id} ELSE ancestors
       /\ \A name \in DOMAIN param : param[name].t = "cuid"

\* C30: whenever a handler is invoked, the session and user it receives are
\* the pair the authentication gate set for the same request: both null, or
\* both non-null and from one session resolution; the handler of a protected
\* operation is never invoked with a null session.
C30_SessionUserPair ==
  \A r \in Active : \A k \in DOMAIN calls[r] :
    LET a == calls[r][k]
        s == getSession(req[r].cred)
    IN /\ a.session = session[r] /\ a.user = user[r]
       /\ IF s.t = "null"
          THEN a.session = Null /\ a.user = Null
          ELSE a.session = s.session /\ a.user = s.user
                 /\ a.session # Null /\ a.user # Null
       /\ Protected(req[r]) => a.session # Null

C30_Witness ==
  \E r \in Active :
    /\ Protected(req[r]) /\ req[r].op = "update" /\ req[r].cred = "valid"
    /\ Invoked(r) /\ calls[r][1].session = "s1" /\ calls[r][1].user = "u1"
    /\ pc[r] = "await"

\* C28: the body of a translated Error Value response has a details key
\* exactly when the Error Value was constructed with details, and then
\* carries that value unchanged, for every supplied details value, the falsy
\* ones (0, false, the empty string) included.
C28_DetailsWhenSupplied ==
  \A r \in Active :
    (Answered(r) /\ Invoked(r) /\ (ReturnsError(req[r]) \/ ThrowsError(req[r])))
      => LET e == req[r].behaviour.v
             body == Response(r).body
         IN /\ ("details" \in DOMAIN body) <=> (e.details # Undefined)
            /\ "details" \in DOMAIN body => body.details = e.details

\* C29: for every operation, every status its pipeline responds with (the
\* success status, the 401 of the session check, the 400 of INVALID_INPUT or
\* INVALID_DATA, the status of a returned or thrown Error Value, the 500 of an
\* unexpected failure) is among the statuses the operation's route declares
\* in its responses.
C29_DeclaredStatuses ==
  \A r \in Active : \A k \in DOMAIN out[r] :
    out[r][k].type # "transport"
      => out[r][k].status \in Served(req[r]).definition.responses

\* C25: in every interleaving of two requests processed concurrently after
\* setup, each handler is invoked with the session, user, param and input
\* resolved from its own request, and each response is the one the same
\* request gets when processed alone; no node or application state is
\* written while requests are served.
C25_RequestsIndependent ==
  /\ [][UNCHANGED <<nodes, app>>]_vars
  /\ [](\A r \in Active :
          /\ \A k \in DOMAIN calls[r] : calls[r][k] = OwnArgs(req[r])
          /\ Len(out[r]) <= 1
          /\ out[r] # <<>> => out[r][1] = OwnResponse(req[r])
          /\ Done(r) => Answered(r) /\ (Invoked(r) <=> OwnStage(req[r]) = "handler"))

C25_Witness ==
  /\ Active = Rids
  /\ req[1].cred = "none" /\ req[2].cred = "valid"
  /\ req[1].depth # req[2].depth /\ req[1].op # req[2].op
  /\ pc[1] = "await" /\ pc[2] = "await"
  /\ calls[1][1].session = Null /\ calls[2][1].session = "s1"
  /\ DOMAIN calls[1][1].param # DOMAIN calls[2][1].param

\* C24: in every constructed node, the derived parameter names of the node
\* and of all its ancestors are pairwise distinct: no chain exists in which
\* two nodes share a derived parameter name, such as a domain nested under a
\* node of the same domain.
C24_DistinctParamNames ==
  \A i \in DOMAIN nodes :
    LET chainOf == Append(Ancestors(nodes, i), i)
    IN \A a, b \in DOMAIN chainOf :
         a # b => getDomainParam(nodes[chainOf[a]].domain)
                    # getDomainParam(nodes[chainOf[b]].domain)

\* C23 as stated: registering create or update without an input schema fails
\* at registration and adds no route: no node carries a create or update
\* route without an input schema.
C23_NoRouteWithoutInput ==
  \A i \in DOMAIN nodes : \A k \in DOMAIN nodes[i].router :
    HasBody(nodes[i].router[k].op) => nodes[i].router[k].definition.schema = "schema"

\* C23 amended: a create or update registered without an input schema (which
\* only a caller the compiler does not check can do) is registered, but it
\* never yields a route whose requests reach the handler without body
\* validation: every request to it that gets as far as the route handler is
\* answered 500 INTERNAL_SERVER_ERROR and the handler is not invoked.
C23_NoHandlerWithoutInput ==
  \A r \in Active :
    (HasBody(req[r].op) /\ req[r].input = "undefined")
      => /\ ~Invoked(r)
         /\ "input" \notin validated[r]
         /\ Done(r) =>
              /\ Answered(r)
              /\ Response(r).status \in {401, 400, 500}
              /\ Response(r).status = 401 => Protected(req[r]) /\ session[r] = Null
              /\ Response(r).status = 400 => Response(r) = transportReject
              /\ Response(r).status = 500 =>
                   Response(r).body.error = "INTERNAL_SERVER_ERROR"

C23_Witness ==
  \E r \in Active :
    /\ req[r].op = "create" /\ req[r].input = "undefined" /\ req[r].body = "good"
    /\ req[r].cred = "valid" /\ req[r].behaviour.ch = "return"
    /\ Answered(r) /\ ~Invoked(r)
    /\ Response(r).status = 500
    /\ Response(r).body.details = Str(TypeError.message)

\* C26: each of list, create, read, update and delete, in the handler-only
\* form and in the form with a config, returns the very Router it was called
\* on, and the call added exactly one route, of its operation, to that Router:
\* calls chained on a Router register one route each.
C26_ReturnsTheNode ==
  ret.op # "none" =>
    /\ ret.value = ret.node
    /\ Len(nodes[ret.node].router) = ret.before + 1
    /\ nodes[ret.node].router[ret.before + 1].op = ret.op

\* a call in the handler-only form chained on the result of an earlier call
C26_Witness ==
  /\ ret.form = "handler"
  /\ ret.before = 1
  /\ ret.value = ret.node
  /\ Len(nodes[ret.node].router) = 2

\* the Routers passed to register
Registered == {app.registered[k] : k \in DOMAIN app.registered}

\* the routes of Router i among the routes of the application, in order
SurfaceOf(i) ==
  LET own == SelectSeq(app.routes, LAMBDA e : e.t = "route" /\ e.node = i)
  IN [k \in DOMAIN own |-> RouteAt(own[k])]

\* the names of the middlewares added with middleware(...), in call order
Added ==
  LET uses == SelectSeq(app.routes, LAMBDA e : e.t = "use" /\ e.name \in Customs)
  IN [k \in DOMAIN uses |-> uses[k].name]

\* C21: the application serves the routes of exactly the Routers passed to
\* register. Every route it holds is a route of a registered Router, at the
\* full nested path of that Router, and every route of a registered Router is
\* held; a request for an operation of a Router that was not registered
\* (the parent of a registered one, or a child of a registered one) is
\* answered by the transport as not found and never reaches a handler, and a
\* request for an operation of a registered Router is not.
C21_ExactlyTheRegistered ==
  /\ \A k \in DOMAIN app.routes :
       app.routes[k].t = "route" =>
         LET i == app.routes[k].node
             path == RouteAt(app.routes[k]).definition.path
         IN /\ i \in Registered
            /\ app.routes[k].k \in DOMAIN nodes[i].router
            /\ Len(path) >= Len(getFullPath(nodes, i))
            /\ SubSeq(path, 1, Len(getFullPath(nodes, i))) = getFullPath(nodes, i)
  /\ \A i \in Registered : \A j \in DOMAIN nodes[i].router :
       \E k \in DOMAIN SurfaceOf(i) : SurfaceOf(i)[k] = nodes[i].router[j]
  /\ \A r \in Active :
       /\ Invoked(r) => req[r].depth + 1 \in Registered
       /\ Done(r) => (Response(r) = notFoundResponse <=> req[r].depth + 1 \notin Registered)

\* only products, nested under stores, was registered: its create is served
\* at /stores/:storeId/products and answered
C21_Witness ==
  /\ app.registered = <<2>>
  /\ req[1].op = "create" /\ req[1].depth = 1
  /\ Answered(1) /\ Invoked(1) /\ Response(1).status = 201
  /\ Served(req[1]).names # <<>>
  /\ Len(Served(req[1]).definition.path) > Len(getFullPath(nodes, 1))

\* C22: registering a Router again leaves the application with the routes it
\* had after the first call: the routes of every registered Router are held
\* once, in the order the Router registered them.
C22_RegisterIdempotent ==
  \A i \in DOMAIN nodes :
    SurfaceOf(i) = IF i \in Registered THEN nodes[i].router ELSE <<>>

\* C27: when the handler of the matched route is invoked, logger, prettyJSON,
\* authMiddleware and then every middleware added with middleware(...), in
\* call order, have run for the request, in that order; also when the Router
\* of the route was registered before a middleware(...) call.
C27_GlobalChainFirst ==
  \A r \in Active :
    Invoked(r) => ran[r] = <<"logger", "prettyJSON", "authMiddleware">> \o Added
====
